---- MODULE Spec2Model ----
(***************************************************************************)
(* The /api/process handler of app.py (process_video) together with the   *)
(* translator of pipeline/translate.py, as a state machine.                *)
(*                                                                         *)
(* process_video is an "async def" that awaits only inside its upload loop *)
(* (await file.read(8192)); from the last read up to and including its     *)
(* finally block it runs without yielding the event loop.  Requests        *)
(* therefore interleave at the reads of the upload, and nowhere else:      *)
(* `loop` names the job that holds the event loop, 0 when it is free.      *)
(*                                                                         *)
(* Texts are sequences of one-character strings.  "a" stands for an ASCII  *)
(* letter, "h" for a Devanagari, "b" for a Bengali and "t" for a Tamil     *)
(* character, " " is whitespace.                                           *)
(***************************************************************************)
EXTENDS Integers, Sequences, FiniteSets, TLC

\* ------------------------------------------------------------------ bounds
NumJobs == 2          \* requests the service receives
MaxTotalFrames == 3   \* frames in an uploaded video
MaxFrames == 2        \* largest max_frames query value tried (the code allows 1..20)
MaxDets == 2          \* text lines recognised in one frame
MaxPasses == 2        \* translator passes over the same detections (SpecT)

Jobs == 1..NumJobs

\* ------------------------------------------------------------------- state
VARIABLES
    pc,              \* where each job's handler stands
    loop,            \* the job holding the event loop, 0 if none
    files,           \* jobs whose temporary file exists in UPLOAD_DIR
    cache,           \* the translation cache clear_cache() empties
    ext,             \* "video" | "image" | "other": the upload's extension class
    target,          \* target_lang
    total_bytes,
    frames,          \* frame indices, in order
    all_detections,
    ocr_failed,      \* history: positions of the frames whose recognition raised
    fi,              \* position of the frame the current loop is at
    results,
    pending,         \* the response or HTTPException on its way through finally
    response,        \* the status code the client received, 0 before that
    posts,           \* history: HTTP POSTs made for the job
    remote_ok,       \* history: <<job, key>> of every POST answered with 200
    passes,          \* translator passes started (SpecT)
    prev_detections, \* all_detections when the latest extra pass started (SpecT)
    prev_posts,      \* posts when the latest extra pass started (SpecT)
    fn_pc,           \* "none" | "call" | "returned": a function called on its own
    fn_args,         \* its arguments
    fn_ret           \* what it returned

vars == <<pc, loop, files, cache, ext, target, total_bytes, frames,
          all_detections, ocr_failed, fi, results, pending, response, posts,
          remote_ok, passes, prev_detections, prev_posts, fn_pc, fn_args, fn_ret>>

\* The variables of the functions checked on their own (SpecF, SpecG), and
\* those of the request handler.
fn_vars == <<fn_pc, fn_args, fn_ret>>

job_vars == <<pc, loop, files, cache, ext, target, total_bytes, frames,
              all_detections, ocr_failed, fi, results, pending, response, posts,
              remote_ok, passes, prev_detections, prev_posts>>

\* ------------------------------------------------------- program constants
MAX_UPLOAD_BYTES == 50 * 1024 * 1024

LANG_CODE_MAP == [eng |-> "en", hin |-> "hi", ben |-> "bn", tam |-> "ta"]

\* Python's None, and a key that a dict does not hold, for text-valued slots.
None == <<"<None>">>
Absent == <<"<absent>">>

\* ------------------------------------------------------------- text helpers
IsSpace(c) == c = " "

RECURSIVE lstrip(_)
lstrip(s) == IF s = <<>> THEN <<>>
             ELSE IF IsSpace(Head(s)) THEN lstrip(Tail(s)) ELSE s

RECURSIVE rstrip(_)
rstrip(s) == IF s = <<>> THEN <<>>
             ELSE IF IsSpace(s[Len(s)]) THEN rstrip(SubSeq(s, 1, Len(s) - 1)) ELSE s

\* str.strip()
strip(s) == rstrip(lstrip(s))

\* Python truthiness of an Optional[str]
Truthy(s) == s # None /\ s # <<>>

CountIn(s, cls) == Cardinality({i \in 1..Len(s) : s[i] \in cls})

\* ocr.py detect_language: max over the dict in insertion order hin, ben, tam, eng
detect_language(text) ==
    LET devanagari == CountIn(text, {"h"})
        bengali == CountIn(text, {"b"})
        tamil == CountIn(text, {"t"})
        latin == CountIn(text, {"a"})
        best == IF devanagari >= bengali /\ devanagari >= tamil /\ devanagari >= latin
                THEN <<"hin", devanagari>>
                ELSE IF bengali >= tamil /\ bengali >= latin THEN <<"ben", bengali>>
                ELSE IF tamil >= latin THEN <<"tam", tamil>>
                ELSE <<"eng", latin>>
    IN  IF best[2] > 0 THEN best[1] ELSE "eng"

\* A detection as group_text_by_lines emits it: no translation fields yet.
\* writes and remote are history fields: how often translation_status was
\* written, and what the HTTP POST made for this detection did
\* ("none": no POST, "ok": 200, "fail": anything else).
NewDetection(text, language) ==
    [text |-> text, language |-> language,
     translated_text |-> Absent, translation_status |-> "absent",
     writes |-> 0, remote |-> "none"]

\* ------------------------------------------------------------ translate.py
\* What one requests.post can do.
Responses ==
    {[kind |-> "ok", body |-> <<"x">>],      \* 200 with a translatedText
     [kind |-> "ok", body |-> Absent],       \* 200 without the translatedText key
     [kind |-> "ok", body |-> <<>>],         \* 200 with an empty translatedText
     [kind |-> "http_error", body |-> Absent],
     [kind |-> "timeout", body |-> Absent],
     [kind |-> "conn_error", body |-> Absent],
     [kind |-> "exception", body |-> Absent]}

\* The answer drawn for a detection that causes no POST.
NoAnswer == [kind |-> "exception", body |-> Absent]

\* A variant of source_code_of: a language outside LANG_CODE_MAP is sent as
\* "auto" instead of falling back to "en".
source_code_of_auto(det) ==
    LET l == IF det.language = "absent" THEN "eng" ELSE det.language
    IN  IF l \in DOMAIN LANG_CODE_MAP THEN LANG_CODE_MAP[l] ELSE "auto"

\* line 107: LANG_CODE_MAP.get(det.get("language", "eng"), "en")
source_code_of(det) ==
    LET l == IF det.language = "absent" THEN "eng" ELSE det.language
    IN  IF l \in DOMAIN LANG_CODE_MAP THEN LANG_CODE_MAP[l] ELSE "en"

\* The deduplication key of a detection.
Key(det, target_lang) == <<strip(det.text), source_code_of(det), target_lang>>

\* A variant of translate_text without the final "except Exception" clause: an
\* exception that is neither a timeout nor a connection error leaves the function.
translate_text_uncaught(text, source_lang, target_lang, resp) ==
    IF text = <<>> \/ strip(text) = <<>>
    THEN [ret |-> text, remote |-> "none", raised |-> FALSE]
    ELSE IF source_lang = target_lang
    THEN [ret |-> text, remote |-> "none", raised |-> FALSE]
    ELSE IF resp.kind = "ok"
    THEN [ret |-> IF resp.body = Absent THEN text ELSE resp.body,
          remote |-> "ok", raised |-> FALSE]
    ELSE [ret |-> None, remote |-> "fail", raised |-> resp.kind = "exception"]

\* translate_text: ret is the returned value, remote what the POST did, raised
\* whether an exception leaves the function (every except clause returns None).
translate_text(text, source_lang, target_lang, resp) ==
    IF text = <<>> \/ strip(text) = <<>>
    THEN [ret |-> text, remote |-> "none", raised |-> FALSE]
    ELSE IF source_lang = target_lang
    THEN [ret |-> text, remote |-> "none", raised |-> FALSE]
    ELSE IF resp.kind = "ok"
    THEN [ret |-> IF resp.body = Absent THEN text ELSE resp.body,
          remote |-> "ok", raised |-> FALSE]
    ELSE [ret |-> None, remote |-> "fail", raised |-> FALSE]

\* A variant of the loop body that remembers translations for the life of the
\* process (a memoised translate_text): a triple any job has had translated is
\* answered from memory, without a POST.
translate_detection_memo(det, target_lang, resp) ==
    LET source_code == source_code_of(det) IN
    IF source_code = target_lang
    THEN [det |-> [det EXCEPT !.translated_text = det.text,
                              !.translation_status = "same_language",
                              !.writes = @ + 1, !.remote = "none"],
          raised |-> FALSE]
    ELSE IF \E k \in Jobs : <<k, Key(det, target_lang)>> \in remote_ok
    THEN [det |-> [det EXCEPT !.translated_text = <<"x">>,
                              !.translation_status = "success",
                              !.writes = @ + 1, !.remote = "none"],
          raised |-> FALSE]
    ELSE LET r == translate_text(det.text, source_code, target_lang, resp) IN
         IF Truthy(r.ret)
         THEN [det |-> [det EXCEPT !.translated_text = r.ret,
                                   !.translation_status = "success",
                                   !.writes = @ + 1, !.remote = r.remote],
               raised |-> FALSE]
         ELSE [det |-> [det EXCEPT !.translated_text = det.text,
                                   !.translation_status = "failed",
                                   !.writes = @ + 1, !.remote = r.remote],
               raised |-> FALSE]

\* A variant of the loop body that leaves a detection alone when its
\* translation failed.
translate_detection_skip_failed(det, target_lang, resp) ==
    LET source_code == source_code_of(det) IN
    IF source_code = target_lang
    THEN [det |-> [det EXCEPT !.translated_text = det.text,
                              !.translation_status = "same_language",
                              !.writes = @ + 1, !.remote = "none"],
          raised |-> FALSE]
    ELSE LET r == translate_text(det.text, source_code, target_lang, resp) IN
         IF Truthy(r.ret)
         THEN [det |-> [det EXCEPT !.translated_text = r.ret,
                                   !.translation_status = "success",
                                   !.writes = @ + 1, !.remote = r.remote],
               raised |-> FALSE]
         ELSE [det |-> [det EXCEPT !.remote = r.remote], raised |-> FALSE]

\* The body of translate_detections' loop, for one detection: the detection as
\* the iteration leaves it, and whether the iteration raised.
translate_detection(det, target_lang, resp) ==
    LET source_code == source_code_of(det) IN
    IF source_code = target_lang
    THEN [det |-> [det EXCEPT !.translated_text = det.text,
                              !.translation_status = "same_language",
                              !.writes = @ + 1, !.remote = "none"],
          raised |-> FALSE]
    ELSE LET r == translate_text(det.text, source_code, target_lang, resp) IN
         IF r.raised THEN [det |-> [det EXCEPT !.remote = r.remote], raised |-> TRUE]
         ELSE IF Truthy(r.ret)
         THEN [det |-> [det EXCEPT !.translated_text = r.ret,
                                   !.translation_status = "success",
                                   !.writes = @ + 1, !.remote = r.remote],
               raised |-> FALSE]
         ELSE [det |-> [det EXCEPT !.translated_text = det.text,
                                   !.translation_status = "failed",
                                   !.writes = @ + 1, !.remote = r.remote],
               raised |-> FALSE]

\* translate_detections: the loop over one list; resps[k] is what the remote
\* service answers if the k-th detection causes a POST.  An iteration that
\* raises ends the loop: the detections after it stay as they were.
translate_detections(detections, target_lang, resps) ==
    LET steps == [k \in 1..Len(detections) |->
                    translate_detection(detections[k], target_lang, resps[k])]
        stop == {k \in 1..Len(detections) : steps[k].raised}
    IN  IF stop = {}
        THEN [detections |-> [k \in 1..Len(detections) |-> steps[k].det],
              raised |-> FALSE]
        ELSE [detections |-> [k \in 1..Len(detections) |->
                                IF \E r \in stop : r < k THEN detections[k]
                                ELSE steps[k].det],
              raised |-> TRUE]

\* The answers the remote service can give to the POSTs of one call: any of
\* Responses for a detection that causes a POST, NoAnswer for one that does not.
AnswersFor(det, target_lang) ==
    IF translate_detection(det, target_lang, NoAnswer).det.remote = "none"
    THEN {NoAnswer} ELSE Responses

RECURSIVE Answers(_, _)
Answers(detections, target_lang) ==
    IF detections = <<>> THEN {<<>>}
    ELSE {<<a>> \o r : a \in AnswersFor(Head(detections), target_lang),
                        r \in Answers(Tail(detections), target_lang)}

\* clear_cache(): imported and called by app.py; pipeline/translate.py defines
\* no such function and keeps no cache.  Taken from the specification: the
\* cache is emptied.
clear_cache == {}

\* ------------------------------------------------------------------ app.py
Min(a, b) == IF a < b THEN a ELSE b
Max(a, b) == IF a > b THEN a ELSE b

\* extract_frames_from_video: the indices of the frames returned.
extract_frames_from_video(total_frames, max_frames) ==
    IF total_frames = 0 THEN <<>>
    ELSE LET interval == Max(1, total_frames \div max_frames)
             target_indices == {i \in 0..(total_frames - 1) : i % interval = 0}
             n == Min(max_frames, Cardinality(target_indices))
         IN  [k \in 1..n |-> (k - 1) * interval]

\* A variant of ocr_frame without the try/except: a recognition failure
\* leaves the loop.
ocr_frame_unguarded(out) ==
    IF out.raised THEN [abort |-> TRUE, detections |-> <<>>]
    ELSE [abort |-> FALSE, detections |-> out.detections]

\* The try/except around extract_text_from_frame: out.raised tells whether
\* recognition raised, out.detections is what it returned otherwise.
ocr_frame(out) ==
    IF out.raised THEN [abort |-> FALSE, detections |-> <<>>]
    ELSE [abort |-> FALSE, detections |-> out.detections]

\* A variant of the recognition loop that hands each frame on as soon as it is
\* recognised, before the remaining frames are looked at.
ocr_loop_over_per_frame(k, n) == TRUE

\* for frame_num, frame in frames (line 179): the loop is over once the body
\* has run for the last of the n frames; k is the position of the frame just
\* handled.
ocr_loop_over(k, n) == k = n

\* A variant of the cleanup that runs on the success path only (the removal
\* placed before the return instead of in a finally block).
finally_cleanup_on_success(fs, j) ==
    IF pending[j].code = 200 THEN fs \ {j} ELSE fs

\* The finally block: os.remove(file_path) if it exists.
finally_cleanup(fs, j) == fs \ {j}

NoResponse ==
    [code |-> 0, success |-> FALSE, frames_processed |-> 0,
     total_text_regions |-> 0, unique_translations |-> 0, detail |-> "none"]

ErrorResponse(code, detail) ==
    [code |-> code, success |-> FALSE, frames_processed |-> 0,
     total_text_regions |-> 0, unique_translations |-> 0, detail |-> detail]

RECURSIVE SumLen(_)
SumLen(ss) == IF ss = <<>> THEN 0 ELSE Len(Head(ss)) + SumLen(Tail(ss))

AllDets(ad) == {<<f, k>> : f \in 1..Len(ad), k \in 1..MaxDets + 1} \cap
               {p \in (1..Len(ad)) \X (1..MaxDets + 1) : p[2] <= Len(ad[p[1]])}

TargetLangs == {"en", "hi"}

\* Lines the line grouper can emit: words are stripped and non-empty and are
\* joined by single spaces, so a line is never empty and has no outer blanks.
LineTexts == {<<"a">>, <<"h">>}

SeqsUpTo(S, n) == UNION {[1..k -> S] : k \in 0..n}

OcrOutcomes ==
    {[raised |-> TRUE, detections |-> <<>>]} \cup
    {[raised |-> FALSE,
      detections |-> [k \in 1..Len(ts) |-> NewDetection(ts[k], detect_language(ts[k]))]]
       : ts \in SeqsUpTo(LineTexts, MaxDets)}

\* No function is being called on its own.
NoCall ==
    /\ fn_pc = "none"
    /\ fn_args = <<>>
    /\ fn_ret = <<>>

\* No request has arrived.
IdleJobs ==
    /\ pc = [j \in Jobs |-> "idle"]
    /\ loop = 0
    /\ files = {}
    /\ cache = {}
    /\ ext = [j \in Jobs |-> "other"]
    /\ target = [j \in Jobs |-> "en"]
    /\ total_bytes = [j \in Jobs |-> 0]
    /\ frames = [j \in Jobs |-> <<>>]
    /\ all_detections = [j \in Jobs |-> <<>>]
    /\ ocr_failed = [j \in Jobs |-> {}]
    /\ fi = [j \in Jobs |-> 1]
    /\ results = [j \in Jobs |-> <<>>]
    /\ pending = [j \in Jobs |-> NoResponse]
    /\ response = [j \in Jobs |-> 0]
    /\ posts = [j \in Jobs |-> 0]
    /\ remote_ok = {}
    /\ passes = [j \in Jobs |-> 1]
    /\ prev_detections = [j \in Jobs |-> <<>>]
    /\ prev_posts = [j \in Jobs |-> 0]

Init == IdleJobs /\ NoCall

\* Lines 137-153: the extension check, the uuid-named path, open(file_path, "wb"),
\* up to the first await.  Job ids stand for the uuids; they are taken in order.
Start(j) ==
    /\ pc[j] = "idle"
    /\ loop = 0
    /\ \A k \in Jobs : k < j => pc[k] # "idle"
    /\ \E allowed \in BOOLEAN :
         IF ~allowed
         THEN /\ pc' = [pc EXCEPT ![j] = "done"]
              /\ response' = [response EXCEPT ![j] = 400]
              /\ UNCHANGED files
         ELSE /\ pc' = [pc EXCEPT ![j] = "upload"]
              /\ files' = files \cup {j}
              /\ UNCHANGED response
    /\ UNCHANGED <<loop, cache, ext, target, total_bytes, frames, all_detections,
                   ocr_failed, fi, results, pending, posts, remote_ok, passes,
                   prev_detections, prev_posts>>
    /\ UNCHANGED fn_vars

\* Lines 154-161: one await file.read(8192) and the loop body that follows it.
\* The handler learns the upload's size only as the chunks arrive: n is the
\* length of the chunk this read returns, 0 at the end of the stream.  The
\* uploads tried hold 0, 1, MAX_UPLOAD_BYTES or MAX_UPLOAD_BYTES + 1 bytes; the
\* first MAX_UPLOAD_BYTES bytes of the two large ones (6400 full chunks, none of
\* which can exceed the limit) arrive in one step.
ChunkLens(total) ==
    IF total = 0 THEN {0, 1, MAX_UPLOAD_BYTES}
    ELSE IF total = MAX_UPLOAD_BYTES THEN {0, 1}
    ELSE {0}

ReadChunk(j) ==
    /\ pc[j] = "upload"
    /\ loop = 0
    /\ \E n \in ChunkLens(total_bytes[j]) :
         IF n = 0
         THEN /\ pc' = [pc EXCEPT ![j] = "clear_cache"]
              /\ loop' = j
              /\ UNCHANGED <<total_bytes, pending>>
         ELSE /\ total_bytes' = [total_bytes EXCEPT ![j] = @ + n]
              /\ IF total_bytes[j] + n > MAX_UPLOAD_BYTES
                 THEN /\ pc' = [pc EXCEPT ![j] = "finally"]
                      /\ pending' = [pending EXCEPT ![j] = ErrorResponse(413, "too large")]
                      /\ loop' = j
                 ELSE UNCHANGED <<pc, pending, loop>>
    /\ UNCHANGED <<files, cache, ext, target, frames, all_detections, ocr_failed, fi,
                   results, response, posts, remote_ok, passes, prev_detections,
                   prev_posts>>
    /\ UNCHANGED fn_vars

\* Line 164
ClearCache(j) ==
    /\ pc[j] = "clear_cache"
    /\ loop = j
    /\ cache' = clear_cache
    /\ pc' = [pc EXCEPT ![j] = "extract"]
    /\ UNCHANGED <<loop, files, ext, target, total_bytes, frames,
                   all_detections, ocr_failed, fi, results, pending, response, posts,
                   remote_ok, passes, prev_detections, prev_posts>>
    /\ UNCHANGED fn_vars

\* Lines 166-175.  Image.open and the video decoder raise on a file they
\* cannot read; that is the unexpected exception of line 228.  The request's
\* extension class and target_lang are first read from here on, and are drawn
\* here.
ExtractFrames(j) ==
    /\ pc[j] = "extract"
    /\ loop = j
    /\ \E e \in {"video", "image"}, t \in TargetLangs, raised \in BOOLEAN,
          total \in 0..MaxTotalFrames, max_frames \in 1..MaxFrames :
         LET fr == IF e = "image" THEN <<0>>
                   ELSE extract_frames_from_video(total, max_frames)
         IN  IF raised
             THEN /\ pc' = [pc EXCEPT ![j] = "finally"]
                  /\ pending' = [pending EXCEPT ![j] = ErrorResponse(500, "failed")]
                  /\ UNCHANGED <<frames, fi, ext, target>>
             ELSE IF fr = <<>>
             THEN /\ pc' = [pc EXCEPT ![j] = "finally"]
                  /\ pending' = [pending EXCEPT ![j] = ErrorResponse(400, "no frames")]
                  /\ UNCHANGED <<frames, fi, ext, target>>
             ELSE /\ pc' = [pc EXCEPT ![j] = "ocr"]
                  /\ frames' = [frames EXCEPT ![j] = fr]
                  /\ fi' = [fi EXCEPT ![j] = 1]
                  /\ ext' = [ext EXCEPT ![j] = e]
                  /\ target' = [target EXCEPT ![j] = t]
                  /\ UNCHANGED pending
    /\ UNCHANGED <<loop, files, cache, total_bytes, all_detections, ocr_failed,
                   results, response, posts, remote_ok, passes, prev_detections,
                   prev_posts>>
    /\ UNCHANGED fn_vars

\* Lines 179-185: one iteration of the recognition loop.
Ocr(j) ==
    /\ pc[j] = "ocr"
    /\ loop = j
    /\ \E out \in OcrOutcomes :
         LET r == ocr_frame(out) IN
         /\ ocr_failed' = [ocr_failed EXCEPT
                             ![j] = IF out.raised THEN @ \cup {fi[j]} ELSE @]
         /\ IF r.abort
            THEN /\ pc' = [pc EXCEPT ![j] = "finally"]
                 /\ pending' = [pending EXCEPT ![j] = ErrorResponse(500, "failed")]
                 /\ UNCHANGED <<all_detections, fi>>
            ELSE /\ all_detections' = [all_detections EXCEPT ![j] = Append(@, r.detections)]
                 /\ IF ocr_loop_over(fi[j], Len(frames[j]))
                    THEN /\ pc' = [pc EXCEPT ![j] = "translate"]
                         /\ fi' = [fi EXCEPT ![j] = 1]
                    ELSE /\ fi' = [fi EXCEPT ![j] = @ + 1]
                         /\ UNCHANGED pc
                 /\ UNCHANGED pending
    /\ UNCHANGED <<loop, files, cache, ext, target, total_bytes, frames,
                   results, response, posts, remote_ok, passes, prev_detections,
                   prev_posts>>
    /\ UNCHANGED fn_vars

\* Lines 190-191: one call translate_detections(detections, target_lang).
\* An answer is drawn for each POST the call makes.
Translate(j) ==
    /\ pc[j] = "translate"
    /\ loop = j
    /\ LET dets == all_detections[j][fi[j]] IN
       \E call \in {translate_detections(dets, target[j], resps) :
                      resps \in Answers(dets, target[j])} :
         LET out == call.detections IN
         /\ all_detections' = [all_detections EXCEPT ![j][fi[j]] = out]
         /\ posts' = [posts EXCEPT
                        ![j] = @ + Cardinality({k \in 1..Len(out) :
                                                  /\ out[k].remote # "none"
                                                  /\ out[k].writes > dets[k].writes})]
         /\ remote_ok' = remote_ok \cup
                           {<<j, Key(out[k], target[j])>> :
                              k \in {i \in 1..Len(out) : /\ out[i].remote = "ok"
                                                         /\ out[i].writes > dets[i].writes}}
         /\ IF call.raised
            THEN /\ pc' = [pc EXCEPT ![j] = "finally"]
                 /\ pending' = [pending EXCEPT ![j] = ErrorResponse(500, "failed")]
                 /\ UNCHANGED fi
            ELSE /\ IF fi[j] = Len(all_detections[j])
                    THEN /\ pc' = [pc EXCEPT ![j] = "render"]
                         /\ fi' = [fi EXCEPT ![j] = 1]
                    ELSE /\ fi' = [fi EXCEPT ![j] = @ + 1]
                         /\ UNCHANGED pc
                 /\ UNCHANGED pending
    /\ UNCHANGED <<loop, files, cache, ext, target, total_bytes, frames,
                   ocr_failed, results, response, passes, prev_detections,
                   prev_posts>>
    /\ UNCHANGED fn_vars

\* Lines 195-202: one iteration of the rendering loop.
Render(j) ==
    /\ pc[j] = "render"
    /\ loop = j
    /\ fi[j] <= Len(frames[j])
    /\ results' = [results EXCEPT
                     ![j] = Append(@, [frame_number |-> frames[j][fi[j]],
                                       detections |-> all_detections[j][fi[j]]])]
    /\ fi' = [fi EXCEPT ![j] = @ + 1]
    /\ UNCHANGED <<pc, loop, files, cache, ext, target, total_bytes, frames,
                   all_detections, ocr_failed, pending, response, posts, remote_ok,
                   passes, prev_detections, prev_posts>>
    /\ UNCHANGED fn_vars

\* Lines 204-224: the summary and the JSONResponse.
Respond(j) ==
    /\ pc[j] = "render"
    /\ loop = j
    /\ fi[j] > Len(frames[j])
    /\ LET ad == all_detections[j]
           ok == {p \in AllDets(ad) : ad[p[1]][p[2]].translation_status = "success"}
       IN  pending' = [pending EXCEPT ![j] =
             [code |-> 200, success |-> TRUE,
              frames_processed |-> Len(results[j]),
              total_text_regions |->
                  SumLen([f \in 1..Len(results[j]) |-> results[j][f].detections]),
              unique_translations |->
                  Cardinality({strip(ad[p[1]][p[2]].text) : p \in ok}),
              detail |-> "ok"]]
    /\ pc' = [pc EXCEPT ![j] = "finally"]
    /\ UNCHANGED <<loop, files, cache, ext, target, total_bytes, frames,
                   all_detections, ocr_failed, fi, results, response, posts, remote_ok,
                   passes, prev_detections, prev_posts>>
    /\ UNCHANGED fn_vars

\* Lines 226-233: the except clauses re-raise, the finally block removes the
\* job's file; the response goes out and the handler's locals are gone.
Finally(j) ==
    /\ pc[j] = "finally"
    /\ loop = j
    /\ files' = finally_cleanup(files, j)
    /\ response' = [response EXCEPT ![j] = pending[j].code]
    /\ pc' = [pc EXCEPT ![j] = "done"]
    /\ loop' = 0
    /\ pending' = [pending EXCEPT ![j] = NoResponse]
    /\ ext' = [ext EXCEPT ![j] = "other"]
    /\ target' = [target EXCEPT ![j] = "en"]
    /\ total_bytes' = [total_bytes EXCEPT ![j] = 0]
    /\ frames' = [frames EXCEPT ![j] = <<>>]
    /\ all_detections' = [all_detections EXCEPT ![j] = <<>>]
    /\ ocr_failed' = [ocr_failed EXCEPT ![j] = {}]
    /\ fi' = [fi EXCEPT ![j] = 1]
    /\ results' = [results EXCEPT ![j] = <<>>]
    /\ posts' = [posts EXCEPT ![j] = 0]
    /\ UNCHANGED <<cache, remote_ok, passes, prev_detections, prev_posts>>
    /\ UNCHANGED fn_vars

Next ==
    \E j \in Jobs :
        \/ Start(j)
        \/ ReadChunk(j)
        \/ ClearCache(j)
        \/ ExtractFrames(j)
        \/ Ocr(j)
        \/ Translate(j)
        \/ Render(j)
        \/ Respond(j)
        \/ Finally(j)

Spec == Init /\ [][Next]_vars

\* ------------------------------------------------- the translator on its own
\* translate_detections applied to one arbitrary list, and applied again to its
\* own output: job 1 stands in the translation stage with that list.
TTexts == {<<>>, <<" ">>, <<"a">>}
\* a mapped language, an unmapped one, and no "language" key at all
TLanguages == {"hin", "xx", "absent"}
TDetections == {NewDetection(t, l) : t \in TTexts, l \in TLanguages}

InitT ==
    /\ pc = [j \in Jobs |-> IF j = 1 THEN "translate" ELSE "idle"]
    /\ loop = 1
    /\ files = {1}
    /\ cache = {}
    /\ ext = [j \in Jobs |-> IF j = 1 THEN "image" ELSE "other"]
    /\ \E t \in TargetLangs : target = [j \in Jobs |-> IF j = 1 THEN t ELSE "en"]
    /\ total_bytes = [j \in Jobs |-> 0]
    /\ frames = [j \in Jobs |-> IF j = 1 THEN <<0>> ELSE <<>>]
    /\ \E ds \in SeqsUpTo(TDetections, MaxDets) \ {<<>>} :
         all_detections = [j \in Jobs |-> IF j = 1 THEN <<ds>> ELSE <<>>]
    /\ ocr_failed = [j \in Jobs |-> {}]
    /\ fi = [j \in Jobs |-> 1]
    /\ results = [j \in Jobs |-> <<>>]
    /\ pending = [j \in Jobs |-> NoResponse]
    /\ response = [j \in Jobs |-> 0]
    /\ posts = [j \in Jobs |-> 0]
    /\ remote_ok = {}
    /\ passes = [j \in Jobs |-> 1]
    /\ prev_detections = [j \in Jobs |-> <<>>]
    /\ prev_posts = [j \in Jobs |-> 0]
    /\ NoCall

\* The same call once more, on the lists the previous pass left.
Rerun(j) ==
    /\ pc[j] = "render"
    /\ loop = j
    /\ passes[j] < MaxPasses
    /\ passes' = [passes EXCEPT ![j] = @ + 1]
    /\ prev_detections' = [prev_detections EXCEPT ![j] = all_detections[j]]
    /\ prev_posts' = [prev_posts EXCEPT ![j] = posts[j]]
    /\ pc' = [pc EXCEPT ![j] = "translate"]
    /\ fi' = [fi EXCEPT ![j] = 1]
    /\ UNCHANGED <<loop, files, cache, ext, target, total_bytes, frames,
                   all_detections, ocr_failed, results, pending, response, posts,
                   remote_ok>>
    /\ UNCHANGED fn_vars

NextT == Translate(1) \/ Rerun(1)

SpecT == InitT /\ [][NextT]_vars

\* ------------------------------------ extract_frames_from_video on its own
\* max_frames: int = Query(8, ..., ge=1, le=20)
MAX_FRAMES_GE == 1
MAX_FRAMES_LE == 20

\* The longest video tried, in frames: more than twice the largest max_frames.
MaxVideoFrames == 45

VideoArgs ==
    {[total_frames |-> t, max_frames |-> n] :
        t \in 0..MaxVideoFrames, n \in MAX_FRAMES_GE..MAX_FRAMES_LE}

InitF ==
    /\ IdleJobs
    /\ fn_pc = "call"
    /\ fn_args \in VideoArgs
    /\ fn_ret = <<>>

\* extract_frames_from_video(video_path, max_frames) on a video of
\* fn_args.total_frames frames.
CallExtractFrames ==
    /\ fn_pc = "call"
    /\ fn_ret' = extract_frames_from_video(fn_args.total_frames, fn_args.max_frames)
    /\ fn_pc' = "returned"
    /\ UNCHANGED fn_args
    /\ UNCHANGED job_vars

NextF == CallExtractFrames

SpecF == InitF /\ [][NextF]_vars

\* ------------------------------------------ ocr.py group_text_by_lines
\* A word as detect_text_regions emits it: stripped non-empty text, confidence
\* above 30, bbox = [left, top, width, height], and Tesseract's block and line.
WordKey(det) == <<det.block_num, det.line_num>>

\* Python's order on the (block_num, line_num) tuples
KeyLess(a, b) == a[1] < b[1] \/ (a[1] = b[1] /\ a[2] < b[2])

\* sorted(lines.items()): the keys are distinct, so the order is that of the keys
RECURSIVE SortedKeys(_)
SortedKeys(S) ==
    IF S = {} THEN <<>>
    ELSE LET m == CHOOSE k \in S : \A o \in S \ {k} : KeyLess(k, o)
         IN  <<m>> \o SortedKeys(S \ {m})

SetMin(S) == CHOOSE x \in S : \A y \in S : x <= y
SetMax(S) == CHOOSE x \in S : \A y \in S : x >= y

\* " ".join(texts)
RECURSIVE Join(_)
Join(texts) ==
    IF Len(texts) = 1 THEN texts[1]
    ELSE texts[1] \o <<" ">> \o Join(Tail(texts))

RECURSIVE Sum(_)
Sum(ns) == IF ns = <<>> THEN 0 ELSE Head(ns) + Sum(Tail(ns))

\* round(total / n, 1), in tenths.  The confidences tried never put the mean
\* half-way between two tenths, where Python rounds the binary float.
RoundedMean(total, n) == (20 * total + n) \div (2 * n)

\* A variant of the merge that takes the widest and the tallest word for the
\* size of the line.
merge_bboxes_largest_word(all_bboxes) ==
    LET I == 1..Len(all_bboxes)
    IN  <<SetMin({all_bboxes[i][1] : i \in I}),
          SetMin({all_bboxes[i][2] : i \in I}),
          SetMax({all_bboxes[i][3] : i \in I}),
          SetMax({all_bboxes[i][4] : i \in I})>>

\* Lines 124-129 and 136: the merged bounding box of one line.
merge_bboxes(all_bboxes) ==
    LET I == 1..Len(all_bboxes)
        x_min == SetMin({all_bboxes[i][1] : i \in I})
        y_min == SetMin({all_bboxes[i][2] : i \in I})
        x_max == SetMax({all_bboxes[i][1] + all_bboxes[i][3] : i \in I})
        y_max == SetMax({all_bboxes[i][2] + all_bboxes[i][4] : i \in I})
    IN  <<x_min, y_min, x_max - x_min, y_max - y_min>>

group_text_by_lines(detections) ==
    IF detections = <<>> THEN <<>>
    ELSE LET keys == SortedKeys({WordKey(detections[i]) : i \in 1..Len(detections)})
         IN  [g \in 1..Len(keys) |->
                LET line == SelectSeq(detections, LAMBDA det : WordKey(det) = keys[g])
                    full_text == Join([i \in 1..Len(line) |-> line[i].text])
                IN  [text |-> full_text,
                     bbox |-> merge_bboxes([i \in 1..Len(line) |-> line[i].bbox]),
                     confidence |->
                        RoundedMean(Sum([i \in 1..Len(line) |-> line[i].confidence]),
                                    Len(line)),
                     language |-> detect_language(full_text)]]

\* Words in one frame
MaxWords == 3

\* The two boxes of the documented example, an empty box, and a box of
\* negative width.
WordBoxes == {<<0, 0, 10, 10>>, <<15, 5, 10, 10>>, <<3, 7, 0, 0>>, <<20, 2, -30, 4>>}

\* Line 2 of block 1 and line 1 of block 2
WordKeys == {<<1, 2>>, <<2, 1>>}

\* A Latin word read with confidence 90, a Devanagari one with confidence 40
WordReadings == {<<<<"a">>, 90>>, <<<<"h">>, 40>>}

Words ==
    {[text |-> r[1], confidence |-> r[2], bbox |-> b,
      block_num |-> k[1], line_num |-> k[2]] :
        r \in WordReadings, b \in WordBoxes, k \in WordKeys}

InitG ==
    /\ IdleJobs
    /\ fn_pc = "call"
    /\ fn_args \in SeqsUpTo(Words, MaxWords)
    /\ fn_ret = <<>>

\* group_text_by_lines(detections) on the words of one frame
CallGroupText ==
    /\ fn_pc = "call"
    /\ fn_ret' = group_text_by_lines(fn_args)
    /\ fn_pc' = "returned"
    /\ UNCHANGED fn_args
    /\ UNCHANGED job_vars

NextG == CallGroupText

SpecG == InitG /\ [][NextG]_vars

\* ------------------------------------------------------------------ claims
Positions(j) == AllDets(all_detections[j])
DetAt(j, p) == all_detections[j][p[1]][p[2]]

\* The job's translation pass is over.
TranslationDone(j) == pc[j] = "render" \/ (pc[j] = "finally" /\ pending[j].code = 200)

\* The mapping the claims state: the four known languages, anything else "en".
ClaimCode(language) ==
    CASE language = "eng" -> "en"
      [] language = "hin" -> "hi"
      [] language = "ben" -> "bn"
      [] language = "tam" -> "ta"
      [] OTHER -> "en"

ClaimKey(det, target_lang) == <<strip(det.text), ClaimCode(det.language), target_lang>>

\* The translation fields of every detection, without the history fields.
Output(ad) ==
    [f \in 1..Len(ad) |->
       [k \in 1..Len(ad[f]) |-> <<ad[f][k].translated_text, ad[f][k].translation_status>>]]

\* C1: within one job the number of HTTP POSTs never exceeds the number of
\* distinct (trimmed text, source language, target language) triples among the
\* job's detections.
C1_OnePostPerTriple ==
    \A j \in Jobs :
        pc[j] \in {"translate", "render", "finally"} =>
            posts[j] <= Cardinality({ClaimKey(DetAt(j, p), target[j]) : p \in Positions(j)})

\* C2: after the translation pass, two detections of a job with the same triple
\* carry the same translated_text and the same translation_status.
C2_SameTripleSameResult ==
    \A j \in Jobs :
        TranslationDone(j) =>
            \A p \in Positions(j), q \in Positions(j) :
                ClaimKey(DetAt(j, p), target[j]) = ClaimKey(DetAt(j, q), target[j]) =>
                    /\ DetAt(j, p).translated_text = DetAt(j, q).translated_text
                    /\ DetAt(j, p).translation_status = DetAt(j, q).translation_status

\* C3: a detection whose POST failed has translated_text = text and status
\* "failed"; the failure does not leave the translator, so a job whose
\* recognition loop completed ends with a 200 response with success true, in
\* which every detection has been processed and the others kept their results.
C3_FailureFallback ==
    \A j \in Jobs :
        /\ \A p \in Positions(j) :
             DetAt(j, p).remote = "fail" =>
                 /\ DetAt(j, p).translated_text = DetAt(j, p).text
                 /\ DetAt(j, p).translation_status = "failed"
        /\ (pc[j] = "finally" /\ frames[j] # <<>>
              /\ Len(all_detections[j]) = Len(frames[j])) =>
             /\ pending[j].code = 200
             /\ pending[j].success
             /\ \A p \in Positions(j) :
                  /\ DetAt(j, p).writes = 1
                  /\ DetAt(j, p).remote = "none" =>
                       DetAt(j, p).translation_status = "same_language"
                  /\ (DetAt(j, p).remote = "ok" /\ Truthy(DetAt(j, p).translated_text)
                        /\ DetAt(j, p).translated_text # DetAt(j, p).text) =>
                       DetAt(j, p).translation_status = "success"

\* A job answers 200 with one detection whose POST failed and another that was
\* translated.
C3_Witness ==
    \E j \in Jobs :
        /\ pc[j] = "finally"
        /\ pending[j].code = 200
        /\ \E p \in Positions(j), q \in Positions(j) :
             /\ DetAt(j, p).remote = "fail"
             /\ DetAt(j, p).translation_status = "failed"
             /\ DetAt(j, q).translation_status = "success"

\* C4: a detection whose language maps to target_lang (an unknown or missing
\* language maps to "en") gets translated_text = text and status
\* "same_language", and causes no POST.
C4_SameLanguage ==
    \A p \in Positions(1) :
        (DetAt(1, p).writes >= 1 /\ ClaimCode(DetAt(1, p).language) = target[1]) =>
            /\ DetAt(1, p).translated_text = DetAt(1, p).text
            /\ DetAt(1, p).translation_status = "same_language"
            /\ DetAt(1, p).remote = "none"

\* A detection with translatable text and an unknown or missing language went
\* through the translator with target "en".
C4_Witness ==
    \E p \in Positions(1) :
        /\ DetAt(1, p).language \in {"xx", "absent"}
        /\ DetAt(1, p).text = <<"a">>
        /\ target[1] = "en"
        /\ DetAt(1, p).translation_status = "same_language"

\* C5: an empty or whitespace-only detection of another language than the
\* target passes through the translator with its translation_status untouched
\* and without a POST.
C5_EmptyTextUntouched ==
    pc[1] = "render" =>
        \A p \in Positions(1) :
            (strip(DetAt(1, p).text) = <<>> /\ ClaimCode(DetAt(1, p).language) # target[1]) =>
                /\ DetAt(1, p).translation_status = "absent"
                /\ DetAt(1, p).remote = "none"

\* C6: the cache is empty when a job's translation pass begins, and a job's
\* detection is marked translated only if a POST of that same job for its
\* triple was answered; a detection whose own POST failed is marked failed,
\* whatever other jobs obtained.
C6_NoCrossJobTranslations ==
    \A j \in Jobs :
        /\ (pc[j] = "translate" /\ fi[j] = 1) => cache = {}
        /\ \A p \in Positions(j) :
             /\ DetAt(j, p).translation_status = "success" =>
                  <<j, ClaimKey(DetAt(j, p), target[j])>> \in remote_ok
             /\ DetAt(j, p).remote = "fail" => DetAt(j, p).translation_status = "failed"

\* A job's POST for a triple fails after another job had that triple translated.
C6_Witness ==
    \E j \in Jobs, k \in Jobs :
        /\ j # k
        /\ \E p \in Positions(j) :
             /\ DetAt(j, p).remote = "fail"
             /\ DetAt(j, p).translation_status = "failed"
             /\ <<k, ClaimKey(DetAt(j, p), target[j])>> \in remote_ok

\* C7: a second pass of the translator over the same detections leaves every
\* translated_text and translation_status as the first pass set them and makes
\* no further POST.
C7_SecondPassIdempotent ==
    (pc[1] = "render" /\ passes[1] >= 2) =>
        /\ Output(all_detections[1]) = Output(prev_detections[1])
        /\ posts[1] = prev_posts[1]

\* C8: when a request that created its temporary file has finished, on any exit
\* path, the file is gone; and a file disappears only in the finally block of
\* the job that owns it.
C8_TempFileRemoved ==
    /\ [](\A j \in Jobs : pc[j] = "done" => j \notin files)
    /\ [][\A k \in Jobs :
            (k \in files /\ k \notin files') =>
                (pc[k] = "finally" /\ pc'[k] = "done" /\ loop = k)]_vars

\* A job ended with a 500, its file is gone, and the file of another job, still
\* uploading, is there.
C8_Witness ==
    \E j \in Jobs, k \in Jobs :
        /\ pc[j] = "done"
        /\ response[j] = 500
        /\ j \notin files
        /\ pc[k] = "upload"
        /\ k \in files

\* C9: translation_status is written at most once per detection, and when the
\* translation pass is over every detection carries a translated_text and a
\* status among success, same_language and failed, written exactly once.
C9_StatusSetOnce ==
    \A j \in Jobs :
        /\ \A p \in Positions(j) : DetAt(j, p).writes <= 1
        /\ TranslationDone(j) =>
             \A p \in Positions(j) :
                 /\ DetAt(j, p).translated_text # Absent
                 /\ DetAt(j, p).translation_status \in {"success", "same_language", "failed"}
                 /\ DetAt(j, p).writes = 1

\* The pass is over for a job with two detections of one triple, one of them
\* with a failed POST.
C9_Witness ==
    \E j \in Jobs :
        /\ TranslationDone(j)
        /\ \E p \in Positions(j), q \in Positions(j) :
             /\ p # q
             /\ ClaimKey(DetAt(j, p), target[j]) = ClaimKey(DetAt(j, q), target[j])
             /\ DetAt(j, p).remote = "fail"

\* C10: a frame whose recognition raised contributes an empty detection list,
\* and the job still answers 200 with success true and one result per extracted
\* frame, the other frames recognised and translated.
C10_OcrFailureContained ==
    \A j \in Jobs :
        /\ \A f \in ocr_failed[j] :
             f <= Len(all_detections[j]) => all_detections[j][f] = <<>>
        /\ (pc[j] = "finally" /\ ocr_failed[j] # {}) =>
             /\ pending[j].code = 200
             /\ pending[j].success
             /\ pending[j].frames_processed = Len(frames[j])
             /\ Len(results[j]) = Len(frames[j])
             /\ \A f \in 1..Len(frames[j]) :
                  /\ results[j][f].frame_number = frames[j][f]
                  /\ f \in ocr_failed[j] => results[j][f].detections = <<>>
                  /\ \A k \in 1..Len(results[j][f].detections) :
                       results[j][f].detections[k].writes = 1

\* A job answers 200 after recognition raised on one frame and another frame
\* gave a detection that was translated.
C10_Witness ==
    \E j \in Jobs :
        /\ pc[j] = "finally"
        /\ pending[j].code = 200
        /\ ocr_failed[j] # {}
        /\ \E p \in Positions(j) :
             /\ p[1] \notin ocr_failed[j]
             /\ DetAt(j, p).translation_status = "success"

\* C11: for every total frame count T >= 1 and every accepted max_frames N,
\* extract_frames_from_video returns at most N frames, in increasing index
\* order, evenly spaced across the video: consecutive indices differ by one
\* constant step, and the indices span 0..T-1 rather than an initial part of it
\* (no index precedes the first by a step, and one more step from the last
\* leaves the video).
C11_EvenlySpacedAcrossVideo ==
    (fn_pc = "returned" /\ fn_args.total_frames >= 1) =>
        LET T == fn_args.total_frames
            N == fn_args.max_frames
            f == fn_ret
            n == Len(f)
        IN  /\ n >= 1
            /\ n <= N
            /\ \A k \in 1..n : f[k] \in 0..(T - 1)
            /\ \A k \in 1..(n - 1) : f[k] < f[k + 1]
            /\ \E step \in 1..T :
                 /\ \A k \in 1..(n - 1) : f[k + 1] - f[k] = step
                 /\ f[1] < step
                 /\ f[n] + step > T - 1

\* The job has entered the loop of line 190 (the first translate_detections
\* call is due or made), or something of it was translated or posted.
TranslationStarted(j) ==
    \/ pc[j] = "translate"
    \/ TranslationDone(j)
    \/ posts[j] > 0
    \/ \E p \in Positions(j) : DetAt(j, p).writes > 0

\* The job has entered the loop of line 195, or a frame of it was rendered.
RenderingStarted(j) == TranslationDone(j) \/ results[j] # <<>>

\* C12: in every run of process_video, translation starts only after
\* recognition has been attempted on every extracted frame (all_detections
\* holds one list per frame), and rendering starts only after the translation
\* pass has gone over every detection of every frame.
C12_StagesInOrder ==
    \A j \in Jobs :
        /\ TranslationStarted(j) =>
              /\ frames[j] # <<>>
              /\ Len(all_detections[j]) = Len(frames[j])
        /\ RenderingStarted(j) =>
              /\ Len(all_detections[j]) = Len(frames[j])
              /\ \A p \in Positions(j) : DetAt(j, p).writes >= 1

\* A job of two frames, with text in both, whose translation made POSTs and
\* whose first frame is rendered.
C12_Witness ==
    \E j \in Jobs :
        /\ pc[j] = "render"
        /\ Len(frames[j]) = 2
        /\ Len(results[j]) = 1
        /\ \A f \in 1..2 : all_detections[j][f] # <<>>
        /\ posts[j] >= 2

\* The positions of the words of fn_args that carry the key.
WordsOf(key) == {i \in 1..Len(fn_args) : WordKey(fn_args[i]) = key}

\* The place of the key's line in the output: lines come out in key order.
LineOf(key) ==
    1 + Cardinality({k \in {WordKey(fn_args[i]) : i \in 1..Len(fn_args)} : KeyLess(k, key)})

\* C13: for any non-empty set of word boxes sharing one (block_num, line_num),
\* group_text_by_lines produces exactly one detection, whose bbox is the union
\* of the word boxes: x = min of the lefts, y = min of the tops, width = max of
\* (left + width) minus x, height = max of (top + height) minus y; the boxes
\* (0,0,10,10) and (15,5,10,10) merge to (0,0,25,15); width and height are >= 0
\* whenever every word box has width and height >= 0.
C13_BboxIsUnion ==
    fn_pc = "returned" =>
        LET keys == {WordKey(fn_args[i]) : i \in 1..Len(fn_args)} IN
        /\ Len(fn_ret) = Cardinality(keys)
        /\ \A key \in keys :
             LET W == WordsOf(key)
                 box == fn_ret[LineOf(key)].bbox
             IN  /\ \A i \in W : box[1] <= fn_args[i].bbox[1]
                 /\ \E i \in W : box[1] = fn_args[i].bbox[1]
                 /\ \A i \in W : box[2] <= fn_args[i].bbox[2]
                 /\ \E i \in W : box[2] = fn_args[i].bbox[2]
                 /\ \A i \in W : box[1] + box[3] >= fn_args[i].bbox[1] + fn_args[i].bbox[3]
                 /\ \E i \in W : box[1] + box[3] = fn_args[i].bbox[1] + fn_args[i].bbox[3]
                 /\ \A i \in W : box[2] + box[4] >= fn_args[i].bbox[2] + fn_args[i].bbox[4]
                 /\ \E i \in W : box[2] + box[4] = fn_args[i].bbox[2] + fn_args[i].bbox[4]
                 /\ ({fn_args[i].bbox : i \in W} = {<<0, 0, 10, 10>>, <<15, 5, 10, 10>>}
                       => box = <<0, 0, 25, 15>>)
                 /\ ((\A i \in W : fn_args[i].bbox[3] >= 0 /\ fn_args[i].bbox[4] >= 0)
                       => (box[3] >= 0 /\ box[4] >= 0))

\* The documented example next to a second line: the two boxes share line 2 of
\* block 1 and merge to (0,0,25,15); the word of block 2 keeps its own box.
C13_Witness ==
    /\ fn_pc = "returned"
    /\ Len(fn_args) = 3
    /\ {fn_args[i].bbox : i \in WordsOf(<<1, 2>>)} = {<<0, 0, 10, 10>>, <<15, 5, 10, 10>>}
    /\ Cardinality(WordsOf(<<2, 1>>)) = 1
    /\ Len(fn_ret) = 2
    /\ fn_ret[1].bbox = <<0, 0, 25, 15>>
====
